---- MODULE Spec2Model ----
(***************************************************************************)
(* Model of fs/accounting/accounting.go: one Account (the accounting core) *)
(* shared by concurrent callers, the adapters (accountStream) and plain    *)
(* streams those callers hold, and the background averageLoop.             *)
(*                                                                         *)
(* Granularity.  A Lock is taken in the same step as the statement that    *)
(* follows it; every later statement that touches a field an unlocked      *)
(* method (WithBuffer, StopBuffering) can read or write is a step of its   *)
(* own; an Unlock is the step that returns.  Code that runs without        *)
(* acc.mu races with code that holds it: the racing accesses interleave    *)
(* statement by statement, so a reader sees the value before or after a    *)
(* racing store.                                                           *)
(***************************************************************************)
EXTENDS Integers, Sequences, FiniteSets, TLC

\* ------------------------------------------------------------------ bounds
\* Operations started over the lifetime of the core.
MaxOps == 2
\* Largest n one underlying Read returns.
MaxRead == 1

\* The concurrent callers.
Threads == {"t1", "t2"}
\* The readings of time.Now(), in seconds; the core is made at second 1.
Seconds == {1, 2}
\* Declared sizes of the transfer (-1: unknown).
Sizes == {-1, 2}
\* Errors an underlying Read returns with its n; "nil" is no error.
ReadErrs == {"nil", "EOF"}
\* Errors the closer's Close returns.
CloseErrs == {"nil", "ECLOSE"}

\* fs.Config.BufferSize and asyncreader.BufferSize, scaled down.
ConfigBufferSize == 8
AsyncBufferSize == 4

\* ----------------------------------------------------------------- streams
Free == "free"
Sampler == "averageLoop"
None == <<"none">>
\* The Account itself, used as an io.Reader.
Core == <<"core">>
\* An io.ReadCloser handed to the constructor or to UpdateReader.
Src(i) == <<"src", i>>
\* The k-th *asyncreader.AsyncReader, made over s.
Async(k, s) == <<"async", k, s>>
\* A decorator some caller put around x (not an Accounter).
Dec(x) == <<"dec", x>>
\* accountStream{acc: the core, in: x}.
Acct(x) == <<"acct", x>>

Kind(s) == s[1]
IsAsync(s) == Kind(s) = "async"
\* in.(Accounter): *Account and *accountStream implement it.
IsAccounter(s) == Kind(s) \in {"core", "acct"}

\* How many accounting stages a Read of s runs through (each calls acc.read).
RECURSIVE Layers(_)
Layers(s) ==
    CASE Kind(s) = "acct" -> 1 + Layers(s[2])
      [] Kind(s) = "dec" -> Layers(s[2])
      [] Kind(s) = "core" -> 1
      [] OTHER -> 0

\* Go's integer division truncates toward zero.
GoDiv(a, b) ==
    IF a >= 0 THEN a \div b ELSE 0 - ((0 - a) \div b)

\* WithBuffer's buffer count.
Buffers(sz) ==
    IF sz >= ConfigBufferSize \/ sz = -1
        THEN GoDiv(ConfigBufferSize, AsyncBufferSize)
        ELSE GoDiv(sz, AsyncBufferSize)

\* ewma.SimpleEWMA over exact rationals <<num, den>>; a sample is <<a, b>>.
EwmaAdd(v, s) ==
    IF v[1] = 0 THEN s
    ELSE <<2 * s[1] * v[2] + 29 * v[1] * s[2], 31 * v[2] * s[2]>>

VARIABLES
    mu, statmu,                 \* holders of acc.mu and acc.statmu
    in, origIn, close, size,    \* acc.in, acc.origIn, acc.close, acc.size
    withBuf, closed, exitCloses,\* acc.withBuf, acc.closed, closes of acc.exit
    bytes, start, lpTime, lpBytes, avg,
    registered,                 \* Stats.inProgress holds acc.name
    clock, tickC,               \* time.Now() in seconds; tick.C (0: empty)
    apc, anow,                  \* averageLoop's position and its `now`
    pc, loc, h,                 \* per caller: position, locals, stream held
    nAsync, abandoned,          \* AsyncReaders made; those told to Abandon
    ops,                        \* operations started
    sumN,                       \* sum of n over the accounted underlying Reads
    globalBytes, limited,       \* totals given to Stats.Bytes, limitBandwidth
    closeLog,                   \* <<stream, error>> of each Close of a closer
    folded                      \* sum of lpBytes the sampler has folded

vars == <<mu, statmu, in, origIn, close, size, withBuf, closed, exitCloses,
          bytes, start, lpTime, lpBytes, avg, registered, clock, tickC, apc,
          anow, pc, loc, h, nAsync, abandoned, ops, sumN, globalBytes,
          limited, closeLog, folded>>

coreVars == <<in, origIn, close, withBuf, nAsync, abandoned>>
lifeVars == <<closed, exitCloses, registered, closeLog>>
statVars == <<bytes, start, lpTime, lpBytes, avg, folded>>
timeVars == <<clock, tickC, apc, anow>>
readVars == <<sumN, globalBytes, limited>>

\* A caller's locals between operations.  flag: for Close, whether no closer
\* had been closed when it took acc.mu; for UpdateReader, acc.withBuf on entry;
\* for eta, whether the receiver is nil.
\* counted: what this call has added to acc.bytes.
NoLoc ==
    [op |-> "none", in |-> None, n |-> 0, err |-> "nil", arg |-> None,
     rc |-> None, sub |-> "pub", flag |-> FALSE, counted |-> 0, ret |-> <<>>]

\* NewAccountSizeName over source "a"; on a core big enough to buffer,
\* optionally followed by the constructor idiom
\* NewAccount(in, obj).WithBuffer() before the core is shared.
Init ==
    /\ size \in Sizes
    /\ withBuf \in {FALSE, Buffers(size) > 0}
    /\ origIn = Src("a")
    /\ IF withBuf
          THEN /\ in = Async(1, Src("a"))
               /\ nAsync = 1
          ELSE /\ in = Src("a")
               /\ nAsync = 0
    /\ close = in
    /\ mu = Free /\ statmu = Free
    /\ closed = FALSE /\ exitCloses = 0 /\ registered = TRUE
    /\ bytes = 0 /\ start = 0 /\ lpBytes = 0 /\ avg = <<0, 1>>
    /\ clock = 1 /\ lpTime = 1 /\ tickC = 0
    /\ apc = "select" /\ anow = 0
    /\ pc = [t \in Threads |-> "idle"]
    /\ loc = [t \in Threads |-> NoLoc]
    /\ h = [t \in Threads |-> Core]
    /\ abandoned = {}
    /\ ops = 0 /\ sumN = 0 /\ globalBytes = 0 /\ limited = 0
    /\ closeLog = <<>> /\ folded = 0

\* A caller starts an operation, moving to position p.
Begin(t, p) ==
    /\ pc[t] = "idle"
    /\ ops < MaxOps
    /\ ops' = ops + 1
    /\ pc' = [pc EXCEPT ![t] = p]

Goto(t, p) == pc' = [pc EXCEPT ![t] = p]

\* ------------------------------------------------------------ read (133-160)
\* Account.Read: Lock, then acc.in is read as read's argument.
AccountRead(t) ==
    /\ Begin(t, "read_start")
    /\ mu = Free
    /\ mu' = t
    /\ loc' = [loc EXCEPT ![t] = [NoLoc EXCEPT !.op = "Read", !.in = in]]
    /\ UNCHANGED <<statmu, size, h, coreVars, lifeVars, statVars, timeVars,
                   readVars>>

\* accountStream.Read: acc.read(a.in, p), without acc.mu.
AdapterRead(t) ==
    /\ Begin(t, "read_start")
    /\ Kind(h[t]) = "acct"
    /\ loc' = [loc EXCEPT ![t] =
                  [NoLoc EXCEPT !.op = "AdapterRead", !.in = h[t][2]]]
    /\ UNCHANGED <<mu, statmu, size, h, coreVars, lifeVars, statVars,
                   timeVars, readVars>>

\* A Read of a stream that is no Accounter: nothing of the core runs.
PlainRead(t) ==
    /\ Begin(t, "done")
    /\ ~IsAccounter(h[t])
    /\ \E n \in 0..MaxRead, e \in ReadErrs :
          /\ loc' = [loc EXCEPT ![t] =
                     [NoLoc EXCEPT !.op = "PlainRead", !.in = h[t], !.n = n,
                                   !.err = e, !.ret = <<n, e>>,
                                   !.counted = n * Layers(h[t])]]
          /\ bytes' = bytes + n * Layers(h[t])
          /\ lpBytes' = lpBytes + n * Layers(h[t])
    /\ UNCHANGED <<mu, statmu, size, h, coreVars, lifeVars, start, lpTime,
                   avg, folded, timeVars, readVars>>

\* ReadStart without the IsZero test: every read sets start.
ReadStartAlwaysSets(t) ==
    /\ pc[t] = "read_start"
    /\ statmu = Free
    /\ statmu' = t
    /\ start' = clock
    /\ Goto(t, "read_started")
    /\ UNCHANGED <<mu, size, loc, h, ops, coreVars, lifeVars, bytes, lpTime,
                   lpBytes, avg, folded, timeVars, readVars>>

\* 135-138: statmu.Lock; set start on the first read.
ReadStart(t) ==
    /\ pc[t] = "read_start"
    /\ statmu = Free
    /\ statmu' = t
    /\ start' = IF start = 0 THEN clock ELSE start
    /\ Goto(t, "read_started")
    /\ UNCHANGED <<mu, size, loc, h, ops, coreVars, lifeVars, bytes, lpTime,
                   lpBytes, avg, folded, timeVars, readVars>>

\* ReadStartUnlock with the Unlock left out.
ReadStartKeepsStatmu(t) ==
    /\ pc[t] = "read_started"
    /\ Goto(t, "read_io")
    /\ UNCHANGED <<mu, statmu, size, loc, h, ops, coreVars, lifeVars,
                   statVars, timeVars, readVars>>

\* 139: statmu.Unlock.
ReadStartUnlock(t) ==
    /\ pc[t] = "read_started"
    /\ statmu' = Free
    /\ Goto(t, "read_io")
    /\ UNCHANGED <<mu, size, loc, h, ops, coreVars, lifeVars, statVars,
                   timeVars, readVars>>

\* 141: n, err = in.Read(p).  The underlying stream yields any n and err; it
\* may take arbitrarily long.  Accounting stages inside `in` would each run
\* acc.read on the same n before this call returns.
ReadIO(t) ==
    /\ pc[t] = "read_io"
    /\ \E n \in 0..MaxRead, e \in ReadErrs :
          /\ loc' = [loc EXCEPT ![t].n = n, ![t].err = e,
                                ![t].counted = n * Layers(loc[t].in)]
          /\ sumN' = sumN + n
          /\ bytes' = bytes + n * Layers(loc[t].in)
          /\ lpBytes' = lpBytes + n * Layers(loc[t].in)
    /\ Goto(t, "read_account")
    /\ UNCHANGED <<mu, statmu, size, h, ops, coreVars, lifeVars, start,
                   lpTime, avg, folded, timeVars, globalBytes, limited>>

\* ReadAccount with the bytes of a failed Read left out.
ReadAccountSkipsOnError(t) ==
    /\ pc[t] = "read_account"
    /\ statmu = Free
    /\ statmu' = t
    /\ LET d == IF loc[t].err = "nil" THEN loc[t].n ELSE 0
       IN /\ lpBytes' = lpBytes + d
          /\ bytes' = bytes + d
          /\ loc' = [loc EXCEPT ![t].counted = @ + d]
    /\ Goto(t, "read_accounted")
    /\ UNCHANGED <<mu, size, h, ops, coreVars, lifeVars, start, lpTime, avg,
                   folded, timeVars, readVars>>

\* 144-146: statmu.Lock; lpBytes += n; bytes += n.
ReadAccount(t) ==
    /\ pc[t] = "read_account"
    /\ statmu = Free
    /\ statmu' = t
    /\ lpBytes' = lpBytes + loc[t].n
    /\ bytes' = bytes + loc[t].n
    /\ loc' = [loc EXCEPT ![t].counted = @ + loc[t].n]
    /\ Goto(t, "read_accounted")
    /\ UNCHANGED <<mu, size, h, ops, coreVars, lifeVars, start, lpTime, avg,
                   folded, timeVars, readVars>>

\* 147: statmu.Unlock.
ReadAccountUnlock(t) ==
    /\ pc[t] = "read_accounted"
    /\ statmu' = Free
    /\ Goto(t, "read_stats")
    /\ UNCHANGED <<mu, size, loc, h, ops, coreVars, lifeVars, statVars,
                   timeVars, readVars>>

\* 149: Stats.Bytes(int64(n)).
ReadStatsBytes(t) ==
    /\ pc[t] = "read_stats"
    /\ globalBytes' = globalBytes + loc[t].n
    /\ Goto(t, "read_limit")
    /\ UNCHANGED <<mu, statmu, size, loc, h, ops, coreVars, lifeVars,
                   statVars, timeVars, sumN, limited>>

\* ReadLimit that reports to the limiter only the bytes of a Read without
\* error.
ReadLimitOnSuccess(t) ==
    /\ pc[t] = "read_limit"
    /\ limited' = limited + (IF loc[t].err = "nil" THEN loc[t].n ELSE 0)
    /\ Goto(t, "read_ret")
    /\ UNCHANGED <<mu, statmu, size, loc, h, ops, coreVars, lifeVars,
                   statVars, timeVars, sumN, globalBytes>>

\* 151: limitBandwidth(n); it may block for as long as it likes.
ReadLimit(t) ==
    /\ pc[t] = "read_limit"
    /\ limited' = limited + loc[t].n
    /\ Goto(t, "read_ret")
    /\ UNCHANGED <<mu, statmu, size, loc, h, ops, coreVars, lifeVars,
                   statVars, timeVars, sumN, globalBytes>>

\* 152: return n, err; Account.Read's deferred Unlock (158) runs.
ReadReturn(t) ==
    /\ pc[t] = "read_ret"
    /\ loc' = [loc EXCEPT ![t].ret = <<loc[t].n, loc[t].err>>]
    /\ mu' = IF loc[t].op = "Read" THEN Free ELSE mu
    /\ Goto(t, "done")
    /\ UNCHANGED <<statmu, size, h, ops, coreVars, lifeVars, statVars,
                   timeVars, readVars>>

\* The caller has its result and is ready for its next call.
Return(t) ==
    /\ pc[t] = "done"
    /\ Goto(t, "idle")
    /\ loc' = [loc EXCEPT ![t] = NoLoc]
    /\ UNCHANGED <<mu, statmu, size, h, ops, coreVars, lifeVars, statVars,
                   timeVars, readVars>>

\* ----------------------------------------------------------- Close (163-173)
\* CloseLock where only the marking is skipped on a closed core: the closer
\* is closed again.
CloseLockRecloses(t) ==
    /\ Begin(t, IF closed THEN "close_closer" ELSE "close_mark")
    /\ mu = Free
    /\ mu' = t
    /\ loc' = [loc EXCEPT ![t] =
                  [NoLoc EXCEPT !.op = "Close", !.flag = (closeLog = <<>>),
                                !.ret = <<"nil">>]]
    /\ UNCHANGED <<statmu, size, h, coreVars, lifeVars, statVars, timeVars,
                   readVars>>

\* 164-168: Lock; if acc.closed, return nil.
CloseLock(t) ==
    /\ Begin(t, IF closed THEN "close_ret" ELSE "close_mark")
    /\ mu = Free
    /\ mu' = t
    /\ loc' = [loc EXCEPT ![t] =
                  [NoLoc EXCEPT !.op = "Close", !.flag = (closeLog = <<>>),
                                !.ret = <<"nil">>]]
    /\ UNCHANGED <<statmu, size, h, coreVars, lifeVars, statVars, timeVars,
                   readVars>>

\* CloseMark that forgets acc.closed = true.
CloseMarkForgetsClosed(t) ==
    /\ pc[t] = "close_mark"
    /\ closed' = closed
    /\ exitCloses' = exitCloses + 1
    /\ IF exitCloses > 0
          THEN /\ Goto(t, "panic")
               /\ mu' = Free
               /\ UNCHANGED registered
          ELSE /\ Goto(t, "close_closer")
               /\ registered' = FALSE
               /\ UNCHANGED mu
    /\ UNCHANGED <<statmu, size, loc, h, ops, coreVars, closeLog, statVars,
                   timeVars, readVars>>

\* 169-171: acc.closed = true; close(acc.exit); Stats.inProgress.clear.
\* Closing a closed channel panics: the goroutine unwinds (the deferred
\* Unlock runs) and the process dies with it.
CloseMark(t) ==
    /\ pc[t] = "close_mark"
    /\ closed' = TRUE
    /\ exitCloses' = exitCloses + 1
    /\ IF exitCloses > 0
          THEN /\ Goto(t, "panic")
               /\ mu' = Free
               /\ UNCHANGED registered
          ELSE /\ Goto(t, "close_closer")
               /\ registered' = FALSE
               /\ UNCHANGED mu
    /\ UNCHANGED <<statmu, size, loc, h, ops, coreVars, closeLog, statVars,
                   timeVars, readVars>>

\* 172: return acc.close.Close().
CloseCloser(t) ==
    /\ pc[t] = "close_closer"
    /\ \E e \in CloseErrs :
          /\ closeLog' = Append(closeLog, <<close, e>>)
          /\ loc' = [loc EXCEPT ![t].ret = <<e>>]
    /\ Goto(t, "close_ret")
    /\ UNCHANGED <<mu, statmu, size, h, ops, coreVars, closed, exitCloses,
                   registered, statVars, timeVars, readVars>>

\* 165: the deferred Unlock.
CloseReturn(t) ==
    /\ pc[t] = "close_ret"
    /\ mu' = Free
    /\ Goto(t, "done")
    /\ UNCHANGED <<statmu, size, loc, h, ops, coreVars, lifeVars, statVars,
                   timeVars, readVars>>

\* -------------------------------------------- buffering control (63-108)
\* StopBuffering's effect: Abandon acc.in if it is an *AsyncReader.
Abandon(s) == IF IsAsync(s) THEN abandoned \cup {s} ELSE abandoned

\* 92-96: StopBuffering called by a caller; it takes no lock.
StopBuffering(t) ==
    /\ Begin(t, "done")
    /\ abandoned' = Abandon(in)
    /\ loc' = [loc EXCEPT ![t] = [NoLoc EXCEPT !.op = "StopBuffering"]]
    /\ UNCHANGED <<mu, statmu, size, h, in, origIn, close, withBuf, nAsync,
                   lifeVars, statVars, timeVars, readVars>>

\* 64-73 for caller t with locals l: withBuf = true; if buffers > 0,
\* asyncreader.New over acc.origIn, which succeeds or fails.  p is where to
\* go when no reader was made (the return at 81).
WithBufferNew(t, l, p) ==
    /\ withBuf' = TRUE
    /\ IF Buffers(size) > 0
          THEN \/ /\ nAsync' = nAsync + 1
                  /\ loc' = [l EXCEPT ![t].rc = Async(nAsync + 1, origIn)]
                  /\ Goto(t, "wb_in")
               \/ /\ nAsync' = nAsync
                  /\ loc' = l
                  /\ Goto(t, p)
          ELSE /\ nAsync' = nAsync
               /\ loc' = l
               /\ Goto(t, p)

\* WithBuffer called by a caller; it takes no lock.
WithBuffer(t) ==
    /\ pc[t] = "idle"
    /\ ops < MaxOps
    /\ ops' = ops + 1
    /\ WithBufferNew(t, [loc EXCEPT ![t] = [NoLoc EXCEPT !.op = "WithBuffer"]],
                     "done")
    /\ UNCHANGED <<mu, statmu, size, h, in, origIn, close, abandoned,
                   lifeVars, statVars, timeVars, readVars>>

\* 77: acc.in = rc.
WithBufferIn(t) ==
    /\ pc[t] = "wb_in"
    /\ in' = loc[t].rc
    /\ Goto(t, "wb_close")
    /\ UNCHANGED <<mu, statmu, size, loc, h, ops, origIn, close, withBuf,
                   nAsync, abandoned, lifeVars, statVars, timeVars, readVars>>

\* 78-81: acc.close = rc; return acc (into UpdateReader, or to the caller).
WithBufferClose(t) ==
    /\ pc[t] = "wb_close"
    /\ close' = loc[t].rc
    /\ Goto(t, IF loc[t].sub = "upd" THEN "upd_unlock" ELSE "done")
    /\ UNCHANGED <<mu, statmu, size, loc, h, ops, in, origIn, withBuf,
                   nAsync, abandoned, lifeVars, statVars, timeVars, readVars>>

\* UpdateReader(s), 101-102: Lock; StopBuffering.
UpdateReader(t, s) ==
    /\ Begin(t, "upd_in")
    /\ mu = Free
    /\ mu' = t
    /\ abandoned' = Abandon(in)
    /\ loc' = [loc EXCEPT ![t] =
                  [NoLoc EXCEPT !.op = "UpdateReader", !.arg = s,
                                !.sub = "upd", !.flag = withBuf]]
    /\ UNCHANGED <<statmu, size, h, in, origIn, close, withBuf, nAsync,
                   lifeVars, statVars, timeVars, readVars>>

\* UpdateReaderIn that also starts the byte count afresh for the new source.
UpdateReaderInResets(t) ==
    /\ pc[t] = "upd_in"
    /\ in' = loc[t].arg
    /\ bytes' = 0
    /\ Goto(t, "upd_close")
    /\ UNCHANGED <<mu, statmu, size, loc, h, ops, origIn, close, withBuf,
                   nAsync, abandoned, lifeVars, start, lpTime, lpBytes, avg,
                   folded, timeVars, readVars>>

\* 103: acc.in = in.
UpdateReaderIn(t) ==
    /\ pc[t] = "upd_in"
    /\ in' = loc[t].arg
    /\ Goto(t, "upd_close")
    /\ UNCHANGED <<mu, statmu, size, loc, h, ops, origIn, close, withBuf,
                   nAsync, abandoned, lifeVars, statVars, timeVars, readVars>>

\* 104: acc.close = in.
UpdateReaderClose(t) ==
    /\ pc[t] = "upd_close"
    /\ close' = loc[t].arg
    /\ Goto(t, "upd_orig")
    /\ UNCHANGED <<mu, statmu, size, loc, h, ops, in, origIn, withBuf,
                   nAsync, abandoned, lifeVars, statVars, timeVars, readVars>>

\* 105: acc.origIn = in.
UpdateReaderOrigIn(t) ==
    /\ pc[t] = "upd_orig"
    /\ origIn' = loc[t].arg
    /\ Goto(t, "upd_wb")
    /\ UNCHANGED <<mu, statmu, size, loc, h, ops, in, close, withBuf,
                   nAsync, abandoned, lifeVars, statVars, timeVars, readVars>>

\* UpdateReaderWithBuffer calling a WithBuffer that takes acc.mu itself.
UpdateReaderWithBufferLocks(t) ==
    /\ pc[t] = "upd_wb"
    /\ mu = Free
    /\ mu' = t
    /\ WithBufferNew(t, loc, "upd_unlock")
    /\ UNCHANGED <<statmu, size, h, ops, in, origIn, close, abandoned,
                   lifeVars, statVars, timeVars, readVars>>

\* 106: acc.WithBuffer(), whatever acc.withBuf was.
UpdateReaderWithBuffer(t) ==
    /\ pc[t] = "upd_wb"
    /\ WithBufferNew(t, loc, "upd_unlock")
    /\ UNCHANGED <<mu, statmu, size, h, ops, in, origIn, close, abandoned,
                   lifeVars, statVars, timeVars, readVars>>

\* 107: Unlock.
UpdateReaderUnlock(t) ==
    /\ pc[t] = "upd_unlock"
    /\ mu' = Free
    /\ Goto(t, "done")
    /\ UNCHANGED <<statmu, size, loc, h, ops, coreVars, lifeVars, statVars,
                   timeVars, readVars>>

\* ------------------------------------------- the streams of the core (84-89,
\* 271-346)
\* GetReader, 86-88: Lock; the caller now holds acc.origIn.
GetReader(t) ==
    /\ Begin(t, "unlock")
    /\ mu = Free
    /\ mu' = t
    /\ loc' = [loc EXCEPT ![t] = [NoLoc EXCEPT !.op = "GetReader",
                                               !.ret = <<origIn>>]]
    /\ UNCHANGED <<statmu, size, h, coreVars, lifeVars, statVars, timeVars,
                   readVars>>

\* Account.OldStream, 273-275: Lock; the caller now holds acc.in.
OldStream(t) ==
    /\ Begin(t, "unlock")
    /\ mu = Free
    /\ mu' = t
    /\ loc' = [loc EXCEPT ![t] = [NoLoc EXCEPT !.op = "OldStream",
                                               !.ret = <<in>>]]
    /\ UNCHANGED <<statmu, size, h, coreVars, lifeVars, statVars, timeVars,
                   readVars>>

\* SetStream without the Lock, as accountStream.SetStream has none.
SetStreamNoLock(t, s) ==
    /\ Begin(t, "done")
    /\ in' = s
    /\ loc' = [loc EXCEPT ![t] = [NoLoc EXCEPT !.op = "SetStream", !.arg = s]]
    /\ UNCHANGED <<mu, statmu, size, h, origIn, close, withBuf, nAsync,
                   abandoned, lifeVars, statVars, timeVars, readVars>>

\* SetStream that installs the stream as the closer too, as UpdateReader
\* does.
SetStreamSetsCloser(t, s) ==
    /\ Begin(t, "unlock")
    /\ mu = Free
    /\ mu' = t
    /\ in' = s
    /\ close' = s
    /\ loc' = [loc EXCEPT ![t] = [NoLoc EXCEPT !.op = "SetStream", !.arg = s]]
    /\ UNCHANGED <<statmu, size, h, origIn, withBuf, nAsync, abandoned,
                   lifeVars, statVars, timeVars, readVars>>

\* Account.SetStream(s), 280-281: Lock; acc.in = in.
SetStream(t, s) ==
    /\ Begin(t, "unlock")
    /\ mu = Free
    /\ mu' = t
    /\ in' = s
    /\ loc' = [loc EXCEPT ![t] = [NoLoc EXCEPT !.op = "SetStream", !.arg = s]]
    /\ UNCHANGED <<statmu, size, h, origIn, close, withBuf, nAsync, abandoned,
                   lifeVars, statVars, timeVars, readVars>>

\* The Unlock of GetReader, OldStream and SetStream (87, 274, 282); the
\* caller keeps the stream GetReader or OldStream returned.
Unlock(t) ==
    /\ pc[t] = "unlock"
    /\ mu' = Free
    /\ h' = IF loc[t].op \in {"GetReader", "OldStream"}
               THEN [h EXCEPT ![t] = loc[t].ret[1]]
               ELSE h
    /\ Goto(t, "done")
    /\ UNCHANGED <<statmu, size, loc, ops, coreVars, lifeVars, statVars,
                   timeVars, readVars>>

\* WrapStream (287-292, 311-313): a new accountStream on the same core.
WrapStream(x) == Acct(x)

\* OldStream of an Accounter: acc.in for the core (275), a.in for an
\* adapter (302).
OldStreamOf(s) == IF s = Core THEN in ELSE s[2]

\* UnWrap that hands back the Accounter itself instead of its OldStream.
UnWrapKeepsAccounting(s) ==
    IF IsAccounter(s) THEN <<s, "WrapStream">> ELSE <<s, "identity">>

\* UnWrap (340-346): the stream under the accounting and how to put the
\* accounting back; a stream that is no Accounter comes back as it is.
UnWrap(s) ==
    IF IsAccounter(s) THEN <<OldStreamOf(s), "WrapStream">>
    ELSE <<s, "identity">>

\* The WrapFn UnWrap returned, applied to r.
ApplyWrap(w, r) == IF w = "WrapStream" THEN WrapStream(r) ELSE r

\* inner, wrap := UnWrap(h) on the stream the caller holds.  On the core,
\* acc.OldStream() takes acc.mu (273-275); on an adapter or a plain stream
\* nothing is locked.
RoundTripUnWrap(t) ==
    /\ Begin(t, IF h[t] = Core THEN "rt_unlock" ELSE "rt_wrap")
    /\ h[t] = Core => mu = Free
    /\ mu' = IF h[t] = Core THEN t ELSE mu
    /\ loc' = [loc EXCEPT ![t] =
                  [NoLoc EXCEPT !.op = "RoundTrip", !.in = UnWrap(h[t])[1],
                                !.arg = <<UnWrap(h[t])[2]>>]]
    /\ UNCHANGED <<statmu, size, h, coreVars, lifeVars, statVars, timeVars,
                   readVars>>

\* 274: OldStream's deferred Unlock.
RoundTripUnlock(t) ==
    /\ pc[t] = "rt_unlock"
    /\ mu' = Free
    /\ Goto(t, "rt_wrap")
    /\ UNCHANGED <<statmu, size, loc, h, ops, coreVars, lifeVars, statVars,
                   timeVars, readVars>>

\* h = wrap(decorate(inner)).
RoundTripWrap(t) ==
    /\ pc[t] = "rt_wrap"
    /\ h' = [h EXCEPT ![t] = ApplyWrap(loc[t].arg[1], Dec(loc[t].in))]
    /\ Goto(t, "done")
    /\ UNCHANGED <<mu, statmu, size, loc, ops, coreVars, lifeVars, statVars,
                   timeVars, readVars>>

\* ------------------------------------------------- statistics (175-229)
\* EtaValue that rounds the seconds to the nearest instead of truncating.
EtaValueRounds(sz, b, v) ==
    IF sz <= 0 \/ b = 0 THEN <<0, FALSE>>
    ELSE IF sz - b <= 0 THEN <<0, TRUE>>
    ELSE IF v[1] <= 0 THEN <<0, FALSE>>
    ELSE <<(2 * (sz - b) * v[2] + v[1]) \div (2 * v[1]), TRUE>>

\* eta's result, in seconds, for a core of size sz with b bytes read and
\* average v (212-228); int(seconds) truncates a positive quotient.
EtaValue(sz, b, v) ==
    IF sz <= 0 \/ b = 0 THEN <<0, FALSE>>
    ELSE IF sz - b <= 0 THEN <<0, TRUE>>
    ELSE IF v[1] <= 0 THEN <<0, FALSE>>
    ELSE <<((sz - b) * v[2]) \div v[1], TRUE>>

\* speed's result: bytes over the time since start, and the average.
SpeedValue(b, st, now, v) ==
    IF b = 0 THEN <<<<0, 1>>, <<0, 1>>>> ELSE <<<<b, now - st>>, v>>

\* progress, 181-182: statmu.Lock; read bytes and size.
Progress(t) ==
    /\ Begin(t, "stat_unlock")
    /\ statmu = Free
    /\ statmu' = t
    /\ loc' = [loc EXCEPT ![t] = [NoLoc EXCEPT !.op = "progress",
                                               !.ret = <<bytes, size>>]]
    /\ UNCHANGED <<mu, size, h, coreVars, lifeVars, statVars, timeVars,
                   readVars>>

\* speed, 194-203: statmu.Lock; compute.
Speed(t) ==
    /\ Begin(t, "stat_unlock")
    /\ statmu = Free
    /\ statmu' = t
    /\ loc' = [loc EXCEPT ![t] =
                  [NoLoc EXCEPT !.op = "speed",
                                !.ret = SpeedValue(bytes, start, clock, avg)]]
    /\ UNCHANGED <<mu, size, h, coreVars, lifeVars, statVars, timeVars,
                   readVars>>

\* eta, 210-228: return at once when the size is unknown; otherwise
\* statmu.Lock and compute.
Eta(t) ==
    /\ Begin(t, IF size <= 0 THEN "done" ELSE "stat_unlock")
    /\ size > 0 => statmu = Free
    /\ statmu' = IF size > 0 THEN t ELSE statmu
    /\ loc' = [loc EXCEPT ![t] = [NoLoc EXCEPT !.op = "eta",
                                               !.ret = EtaValue(size, bytes, avg)]]
    /\ UNCHANGED <<mu, size, h, coreVars, lifeVars, statVars, timeVars,
                   readVars>>

\* eta on a nil *Account, 210-211: return 0, false; nothing is locked.
EtaNil(t) ==
    /\ Begin(t, "done")
    /\ loc' = [loc EXCEPT ![t] = [NoLoc EXCEPT !.op = "eta", !.flag = TRUE,
                                               !.ret = <<0, FALSE>>]]
    /\ UNCHANGED <<mu, statmu, size, h, coreVars, lifeVars, statVars,
                   timeVars, readVars>>

\* The statmu.Unlock of progress, speed and eta (183, 195, 214).
StatUnlock(t) ==
    /\ pc[t] = "stat_unlock"
    /\ statmu' = Free
    /\ Goto(t, "done")
    /\ UNCHANGED <<mu, size, loc, h, ops, coreVars, lifeVars, statVars,
                   timeVars, readVars>>

\* ------------------------------------------------- averageLoop (111-130)
\* A second passes; the ticker, while it runs, puts the time in tick.C
\* unless a tick is still waiting there.
Tick ==
    /\ clock + 1 \in Seconds
    /\ clock' = clock + 1
    /\ tickC' = IF apc # "exited" /\ tickC = 0 THEN clock + 1 ELSE tickC
    /\ UNCHANGED <<mu, statmu, size, apc, anow, pc, loc, h, ops, coreVars,
                   lifeVars, statVars, readVars>>

\* 116: now := <-tick.C.
AverageTick ==
    /\ apc = "select"
    /\ tickC # 0
    /\ anow' = tickC
    /\ tickC' = 0
    /\ apc' = "tick"
    /\ UNCHANGED <<mu, statmu, size, clock, pc, loc, h, ops, coreVars,
                   lifeVars, statVars, readVars>>

\* AverageFold without acc.lpBytes = 0: the window is folded again at the
\* next tick.
AverageFoldKeepsWindow ==
    /\ apc = "tick"
    /\ statmu = Free
    /\ statmu' = Sampler
    /\ avg' = EwmaAdd(avg, <<lpBytes, anow - lpTime>>)
    /\ folded' = folded + lpBytes
    /\ lpBytes' = lpBytes
    /\ lpTime' = anow
    /\ apc' = "fold"
    /\ UNCHANGED <<mu, size, clock, tickC, anow, pc, loc, h, ops, coreVars,
                   lifeVars, bytes, start, readVars>>

\* 117-123: statmu.Lock; fold the window into the average and reset it.
AverageFold ==
    /\ apc = "tick"
    /\ statmu = Free
    /\ statmu' = Sampler
    /\ avg' = EwmaAdd(avg, <<lpBytes, anow - lpTime>>)
    /\ folded' = folded + lpBytes
    /\ lpBytes' = 0
    /\ lpTime' = anow
    /\ apc' = "fold"
    /\ UNCHANGED <<mu, size, clock, tickC, anow, pc, loc, h, ops, coreVars,
                   lifeVars, bytes, start, readVars>>

\* 125: statmu.Unlock.
AverageUnlock ==
    /\ apc = "fold"
    /\ statmu' = Free
    /\ apc' = "select"
    /\ UNCHANGED <<mu, size, clock, tickC, anow, pc, loc, h, ops, coreVars,
                   lifeVars, statVars, readVars>>

\* AverageExit with a break, which leaves the select and not the loop.
AverageExitBreaksSelect ==
    /\ apc = "select"
    /\ exitCloses > 0
    /\ apc' = "select"
    /\ UNCHANGED <<mu, statmu, size, clock, tickC, anow, pc, loc, h, ops,
                   coreVars, lifeVars, statVars, readVars>>

\* 126-127: <-acc.exit; return (the deferred tick.Stop runs).
AverageExit ==
    /\ apc = "select"
    /\ exitCloses > 0
    /\ apc' = "exited"
    /\ UNCHANGED <<mu, statmu, size, clock, tickC, anow, pc, loc, h, ops,
                   coreVars, lifeVars, statVars, readVars>>

\* ---------------------------------------------------------- specification
\* Sources a caller hands to UpdateReader.
NewSources == {Src("b")}

\* Streams caller t hands to SetStream: a fresh reader, or a decorator
\* around the plain stream it holds.
SetStreamInputs(t) ==
    {Src("c")} \cup (IF IsAccounter(h[t]) THEN {} ELSE {Dec(h[t])})

Next ==
    \/ \E t \in Threads : AccountRead(t)
    \/ \E t \in Threads : AdapterRead(t)
    \/ \E t \in Threads : PlainRead(t)
    \/ \E t \in Threads : ReadStart(t)
    \/ \E t \in Threads : ReadStartUnlock(t)
    \/ \E t \in Threads : ReadIO(t)
    \/ \E t \in Threads : ReadAccount(t)
    \/ \E t \in Threads : ReadAccountUnlock(t)
    \/ \E t \in Threads : ReadStatsBytes(t)
    \/ \E t \in Threads : ReadLimit(t)
    \/ \E t \in Threads : ReadReturn(t)
    \/ \E t \in Threads : Return(t)
    \/ \E t \in Threads : CloseLock(t)
    \/ \E t \in Threads : CloseMark(t)
    \/ \E t \in Threads : CloseCloser(t)
    \/ \E t \in Threads : CloseReturn(t)
    \/ \E t \in Threads : StopBuffering(t)
    \/ \E t \in Threads : WithBuffer(t)
    \/ \E t \in Threads : WithBufferIn(t)
    \/ \E t \in Threads : WithBufferClose(t)
    \/ \E t \in Threads : \E s \in NewSources : UpdateReader(t, s)
    \/ \E t \in Threads : UpdateReaderIn(t)
    \/ \E t \in Threads : UpdateReaderClose(t)
    \/ \E t \in Threads : UpdateReaderOrigIn(t)
    \/ \E t \in Threads : UpdateReaderWithBuffer(t)
    \/ \E t \in Threads : UpdateReaderUnlock(t)
    \/ \E t \in Threads : GetReader(t)
    \/ \E t \in Threads : OldStream(t)
    \/ \E t \in Threads : \E s \in SetStreamInputs(t) : SetStream(t, s)
    \/ \E t \in Threads : Unlock(t)
    \/ \E t \in Threads : RoundTripUnWrap(t)
    \/ \E t \in Threads : RoundTripUnlock(t)
    \/ \E t \in Threads : RoundTripWrap(t)
    \/ \E t \in Threads : Progress(t)
    \/ \E t \in Threads : Speed(t)
    \/ \E t \in Threads : Eta(t)
    \/ \E t \in Threads : StatUnlock(t)
    \/ Tick
    \/ AverageTick
    \/ AverageFold
    \/ AverageUnlock
    \/ AverageExit

Spec == Init /\ [][Next]_vars

\* The fairness the sampler's exit rests on: a goroutine that holds statmu
\* goes on to its Unlock; sync.Mutex hands the lock to a waiter that keeps
\* waiting; select picks among its ready cases at random, so a case that is
\* ready again and again is taken.  Nothing is assumed of the underlying
\* Read, the limiter or the callers.
Fairness ==
    /\ WF_vars(\E t \in Threads :
                  ReadStartUnlock(t) \/ ReadAccountUnlock(t) \/ StatUnlock(t))
    /\ WF_vars(AverageUnlock)
    /\ SF_vars(AverageFold)
    /\ SF_vars(AverageExit)

SpecFair == Spec /\ Fairness

\* The operations that meet averageLoop: those that take statmu, and Close.
NextSampler ==
    \/ \E t \in Threads : AccountRead(t)
    \/ \E t \in Threads : ReadStart(t)
    \/ \E t \in Threads : ReadStartUnlock(t)
    \/ \E t \in Threads : ReadIO(t)
    \/ \E t \in Threads : ReadAccount(t)
    \/ \E t \in Threads : ReadAccountUnlock(t)
    \/ \E t \in Threads : ReadStatsBytes(t)
    \/ \E t \in Threads : ReadLimit(t)
    \/ \E t \in Threads : ReadReturn(t)
    \/ \E t \in Threads : Return(t)
    \/ \E t \in Threads : CloseLock(t)
    \/ \E t \in Threads : CloseMark(t)
    \/ \E t \in Threads : CloseCloser(t)
    \/ \E t \in Threads : CloseReturn(t)
    \/ \E t \in Threads : Progress(t)
    \/ \E t \in Threads : Speed(t)
    \/ \E t \in Threads : Eta(t)
    \/ \E t \in Threads : StatUnlock(t)
    \/ Tick
    \/ AverageTick
    \/ AverageFold
    \/ AverageUnlock
    \/ AverageExit

SpecSampler == Init /\ [][NextSampler]_vars /\ Fairness

\* eta over chosen inputs.  The sizes, byte counts and averages it is given:
\* a core that has read b bytes in all and whose sampler has folded them
\* into an average v, which is 0 until bytes were folded and at most b.
EtaSizes == {-1, 0, 2, 1000}
EtaBytes == {0, 1, 250, 1000, 1001}
EtaAvgs == {<<0, 1>>, <<1, 1>>, <<4, 1>>, <<50, 1>>, <<7, 2>>}

InitEta ==
    /\ size \in EtaSizes
    /\ bytes \in EtaBytes
    /\ avg \in {v \in EtaAvgs : v[1] <= bytes * v[2]}
    /\ withBuf = FALSE
    /\ origIn = Src("a") /\ in = Src("a") /\ close = Src("a")
    /\ nAsync = 0
    /\ mu = Free /\ statmu = Free
    /\ closed = FALSE /\ exitCloses = 0 /\ registered = TRUE
    /\ start = (IF bytes > 0 THEN 1 ELSE 0)
    /\ lpBytes = (IF avg[1] > 0 THEN 0 ELSE bytes)
    /\ folded = bytes - lpBytes
    /\ clock = 2 /\ lpTime = (IF avg[1] > 0 THEN 2 ELSE 1) /\ tickC = 0
    /\ apc = "select" /\ anow = 0
    /\ pc = [t \in Threads |-> "idle"]
    /\ loc = [t \in Threads |-> NoLoc]
    /\ h = [t \in Threads |-> Core]
    /\ abandoned = {}
    /\ ops = 0 /\ sumN = bytes /\ globalBytes = bytes /\ limited = bytes
    /\ closeLog = <<>>

NextEta ==
    \/ \E t \in Threads : Eta(t)
    \/ \E t \in Threads : EtaNil(t)
    \/ \E t \in Threads : StatUnlock(t)
    \/ \E t \in Threads : Return(t)

SpecEta == InitEta /\ [][NextEta]_vars

\* The core once caller t1 has moved the accounting to the end of its chain
\* of readers: inner, wrap := UnWrap(acc); h = wrap(decorate(inner)).  The
\* other caller still holds the core itself.
InitAdapter ==
    /\ size \in Sizes
    /\ withBuf \in {FALSE, Buffers(size) > 0}
    /\ origIn = Src("a")
    /\ IF withBuf
          THEN /\ in = Async(1, Src("a"))
               /\ nAsync = 1
          ELSE /\ in = Src("a")
               /\ nAsync = 0
    /\ close = in
    /\ mu = Free /\ statmu = Free
    /\ closed = FALSE /\ exitCloses = 0 /\ registered = TRUE
    /\ bytes = 0 /\ start = 0 /\ lpBytes = 0 /\ avg = <<0, 1>>
    /\ clock = 1 /\ lpTime = 1 /\ tickC = 0
    /\ apc = "select" /\ anow = 0
    /\ pc = [t \in Threads |-> "idle"]
    /\ loc = [t \in Threads |-> NoLoc]
    /\ h = [t \in Threads |->
                IF t = "t1" THEN ApplyWrap(UnWrap(Core)[2], Dec(UnWrap(Core)[1]))
                ELSE Core]
    /\ abandoned = {}
    /\ ops = 0 /\ sumN = 0 /\ globalBytes = 0 /\ limited = 0
    /\ closeLog = <<>> /\ folded = 0

SpecAdapter == InitAdapter /\ [][Next]_vars

\* ------------------------------------------------------------------ claims
ReadOps == {"Read", "AdapterRead"}
ReadPcs == {"read_start", "read_started", "read_io", "read_account",
            "read_accounted", "read_stats", "read_limit", "read_ret"}
\* An accounted read of caller t has been called and has not returned.
Reading(t) == pc[t] \in ReadPcs
\* Caller t has its result of operation o.
Done(t, o) == pc[t] = "done" /\ loc[t].op = o

\* The n of the underlying Reads that have returned and wait to be counted.
RECURSIVE PendingN(_)
PendingN(T) ==
    IF T = {} THEN 0
    ELSE LET t == CHOOSE x \in T : TRUE
         IN (IF pc[t] = "read_account" THEN loc[t].n ELSE 0)
            + PendingN(T \ {t})

\* C1: acc.bytes is the sum of the n the underlying Reads returned, less the
\* n of the reads that have not counted theirs yet, so when every read has
\* returned the two are equal; and acc.bytes never decreases, whatever
\* WithBuffer, UpdateReader and SetStream calls come between.
C1_BytesIsSumOfReads ==
    /\ [](bytes = sumN - PendingN(Threads))
    /\ []((\A t \in Threads : ~Reading(t)) => bytes = sumN)
    /\ [][bytes' >= bytes]_vars

C1_Witness ==
    /\ \A t \in Threads : ~Reading(t)
    /\ \E t \in Threads : Done(t, "UpdateReader")
    /\ origIn = Src("b")
    /\ sumN > 0
    /\ bytes = sumN

\* C2: the closer's Close is invoked at most once, and exactly once as soon
\* as a Close call has returned; the Close call that took acc.mu first
\* returns the closer's error and every other call returns nil.
C2_CloseOnce ==
    /\ Len(closeLog) <= 1
    /\ \A t \in Threads :
          Done(t, "Close") =>
              /\ Len(closeLog) = 1
              /\ loc[t].ret = IF loc[t].flag THEN <<closeLog[1][2]>>
                              ELSE <<"nil">>

C2_Witness ==
    \E t \in Threads :
        /\ Done(t, "Close")
        /\ ~loc[t].flag
        /\ Len(closeLog) = 1
        /\ closeLog[1][2] = "ECLOSE"

\* C3: an accounted read returns the n and err its underlying Read gave,
\* EOF and errors included, and has added exactly n to acc.bytes whether or
\* not err is nil.
C3_ReadVerbatim ==
    \A t \in Threads :
        (pc[t] = "done" /\ loc[t].op \in ReadOps) =>
            /\ loc[t].ret = <<loc[t].n, loc[t].err>>
            /\ loc[t].counted = loc[t].n

C3_Witness ==
    \E t \in Threads :
        /\ Done(t, "Read")
        /\ loc[t].ret = <<1, "EOF">>
        /\ loc[t].counted = 1
        /\ bytes = 1

\* C4: a stream a caller got by UnWrap/wrap round trips has one accounting
\* stage if it is an Accounter and none if it is not; a read through an
\* adapter adds exactly its n to acc.bytes, a read through a stream that is
\* no Accounter adds nothing, and the round trip of a stream that is no
\* Accounter gives the decorated stream itself.
C4_RoundTripCountsOnce ==
    \A t \in Threads :
        /\ Layers(h[t]) = IF IsAccounter(h[t]) THEN 1 ELSE 0
        /\ Done(t, "AdapterRead") => loc[t].counted = loc[t].n
        /\ Done(t, "PlainRead") => loc[t].counted = 0
        /\ (Done(t, "RoundTrip") /\ loc[t].arg = <<"identity">>) =>
              h[t] = Dec(loc[t].in)

C4_Witness ==
    \E t \in Threads :
        /\ Done(t, "AdapterRead")
        /\ Kind(h[t]) = "acct"
        /\ Kind(h[t][2]) = "dec"
        /\ loc[t].n = 1
        /\ loc[t].counted = 1

\* C5: every step that changes acc.in, acc.close or acc.origIn is taken by
\* a caller that holds acc.mu.
C5_UpdatesUnderMu ==
    [][(in' # in \/ close' # close \/ origIn' # origIn) =>
          \E t \in Threads : pc'[t] # pc[t] /\ mu' = t]_vars

\* An Account.Read holds acc.mu while a WithBuffer of another caller has
\* stored acc.in and not yet acc.close.
C5_Witness ==
    \E t, u \in Threads :
        /\ loc[t].op = "Read" /\ pc[t] = "read_io" /\ mu = t
        /\ loc[u].op = "WithBuffer" /\ pc[u] = "wb_close"
        /\ in = loc[u].rc
        /\ close # in
        /\ loc[t].in # in

\* C6: while an Account.Read is between its Lock and its return, no other
\* Account.Read, Close, UpdateReader, SetStream, OldStream or GetReader is
\* past its own Lock, none of them takes a step, and acc.closed and the
\* closes of the closer do not change.
LockedOps == {"Read", "Close", "UpdateReader", "SetStream", "OldStream",
              "GetReader"}
InLocked(t) ==
    \/ loc[t].op \in LockedOps /\ pc[t] \notin {"idle", "done", "panic"}
    \/ pc[t] = "rt_unlock"

C6_ReadExcludes ==
    /\ [](\A t, u \in Threads :
             (t # u /\ loc[t].op = "Read" /\ Reading(t)) => ~InLocked(u))
    /\ [][\A t, u \in Threads :
             (t # u /\ loc[t].op = "Read" /\ Reading(t) /\ pc'[u] # pc[u]) =>
                 /\ loc'[u].op \notin LockedOps
                 /\ pc'[u] # "rt_unlock"
                 /\ closed' = closed
                 /\ closeLog' = closeLog]_vars

C6_Witness ==
    \E t, u \in Threads :
        /\ t # u
        /\ loc[t].op = "Read" /\ pc[t] = "read_io"
        /\ pc[u] = "idle" /\ ops < MaxOps
        /\ ~ENABLED CloseLock(u)
        /\ ~ENABLED UpdateReader(u, Src("b"))

\* C7: a caller inside the underlying Read, the global byte counter or the
\* limiter does not hold statmu; progress, speed and eta never hold acc.mu;
\* and whoever holds statmu is at its Unlock, which waits for nothing.
StatOps == {"progress", "speed", "eta"}

C7_StatsNeverBlocked ==
    /\ \A t \in Threads :
          /\ pc[t] \in {"read_io", "read_stats", "read_limit", "read_ret"} =>
                statmu # t
          /\ loc[t].op \in StatOps => mu # t
          /\ statmu = t =>
                pc[t] \in {"read_started", "read_accounted", "stat_unlock"}
    /\ statmu = Sampler => apc = "fold"

C7_Witness ==
    \E t, u \in Threads :
        /\ loc[t].op = "Read" /\ pc[t] = "read_io" /\ mu = t
        /\ loc[u].op = "progress" /\ pc[u] = "stat_unlock" /\ statmu = u

\* C8: acc.exit is closed at most once, it is closed exactly when acc.closed
\* is set, no Close panics, and acc.closed never goes back to false.
C8_ExitClosedOnce ==
    /\ [](exitCloses <= 1 /\ (closed <=> exitCloses = 1))
    /\ [](\A t \in Threads : pc[t] # "panic")
    /\ [][closed => closed']_vars

C8_Witness ==
    /\ closed
    /\ exitCloses = 1
    /\ \E t \in Threads : Done(t, "Close") /\ ~loc[t].flag

\* C9: once acc.exit is closed averageLoop returns; having returned it stays
\* so and lpTime, the average and the folded total no longer change (lpBytes
\* is no longer reset); and it returns only if acc.exit was closed.
C9_SamplerStops ==
    /\ (exitCloses > 0) ~> (apc = "exited")
    /\ [][apc = "exited" =>
             /\ apc' = "exited"
             /\ lpTime' = lpTime /\ avg' = avg /\ folded' = folded
             /\ lpBytes' >= lpBytes]_vars
    /\ [](apc = "exited" => exitCloses > 0)

C9_Witness ==
    /\ apc = "exited"
    /\ tickC # 0
    /\ lpBytes > 0

\* C10: an UpdateReader(s) that is the only operation on a core made
\* without WithBuffer leaves acc.in, acc.close and acc.origIn at s, makes no
\* AsyncReader and leaves acc.withBuf false.
C10_UpdateReaderKeepsUnbuffered ==
    \A t \in Threads :
        (Done(t, "UpdateReader") /\ ~loc[t].flag /\ ops = 1) =>
            /\ in = loc[t].arg
            /\ close = loc[t].arg
            /\ origIn = loc[t].arg
            /\ nAsync = 0
            /\ ~withBuf

\* The first Close call, the one that found acc.closed false, has returned.
FirstCloseReturned ==
    /\ closed
    /\ \A u \in Threads :
          (loc[u].op = "Close" /\ loc[u].flag) => pc[u] = "done"

\* C11: once the first Close has returned, a Read, UpdateReader or SetStream
\* that takes acc.mu, and a WithBuffer that is called, leave acc.in,
\* acc.close, acc.origIn and acc.bytes as they were and make no AsyncReader.
C11_ClosedIsTerminal ==
    [][\A t \in Threads :
          (/\ FirstCloseReturned
           /\ pc'[t] # pc[t]
           /\ \/ loc'[t].op \in {"Read", "UpdateReader", "SetStream"}
              \/ pc[t] = "idle" /\ loc'[t].op = "WithBuffer") =>
              /\ in' = in
              /\ close' = close
              /\ origIn' = origIn
              /\ bytes' = bytes
              /\ nAsync' = nAsync]_vars

\* C12: eta gives ok=false on a nil core, a size <= 0 or no bytes read;
\* otherwise (0, true) when nothing is left; otherwise ok=false when the
\* average is not positive; otherwise the whole seconds of left / average
\* (size 1000, bytes 250, average 50: 15 s).  The result is fixed by size,
\* bytes and the average, and a step of eta changes none of the core's fields.
C12_EtaCases ==
    /\ [](\A t \in Threads :
             (loc[t].op = "eta" /\ pc[t] \in {"stat_unlock", "done"}) =>
                LET r == loc[t].ret
                    nil == loc[t].flag
                    left == size - bytes
                IN /\ (nil \/ size <= 0 \/ bytes = 0) => r = <<0, FALSE>>
                   /\ (~nil /\ size > 0 /\ bytes # 0 /\ left <= 0) =>
                         r = <<0, TRUE>>
                   /\ (~nil /\ size > 0 /\ bytes # 0 /\ left > 0
                       /\ avg[1] <= 0) => r = <<0, FALSE>>
                   /\ (~nil /\ size > 0 /\ bytes # 0 /\ left > 0
                       /\ avg[1] > 0) =>
                         /\ r[2] = TRUE
                         /\ r[1] * avg[1] <= left * avg[2]
                         /\ (r[1] + 1) * avg[1] > left * avg[2]
                   /\ (~nil /\ size = 1000 /\ bytes = 250
                       /\ avg = <<50, 1>>) => r = <<15, TRUE>>)
    /\ [][\A t \in Threads :
             (pc'[t] # pc[t] /\ "eta" \in {loc[t].op, loc'[t].op}) =>
                UNCHANGED <<mu, size, h, coreVars, lifeVars, statVars,
                            timeVars, readVars>>]_vars

C12_Witness ==
    \E t \in Threads :
        /\ Done(t, "eta")
        /\ ~loc[t].flag
        /\ size = 1000 /\ bytes = 250 /\ avg = <<7, 2>>
        /\ loc[t].ret = <<214, TRUE>>

\* The n of the accounted reads of the callers in T that are at a position
\* in P.
RECURSIVE PendingAt(_, _)
PendingAt(T, P) ==
    IF T = {} THEN 0
    ELSE LET t == CHOOSE x \in T : TRUE
         IN (IF pc[t] \in P THEN loc[t].n ELSE 0) + PendingAt(T \ {t}, P)

\* C13: every accounted read, through Account.Read or accountStream.Read,
\* passes its n on once and in this order: to acc.bytes and acc.lpBytes, to
\* the global byte counter, to the limiter, to the caller.  So the global
\* counter lags acc.bytes, and the limiter the global counter, by exactly the
\* n of the reads in between; the limiter is called by a read that has
\* counted its n and released statmu; and a read returns from behind the
\* limiter with the n it counted.
C13_ReadOrder ==
    /\ [](/\ globalBytes =
                bytes - PendingAt(Threads, {"read_accounted", "read_stats"})
          /\ limited = globalBytes - PendingAt(Threads, {"read_limit"})
          /\ \A t \in Threads :
                (loc[t].op \in ReadOps
                 /\ pc[t] \in {"read_stats", "read_limit", "read_ret", "done"})
                    => loc[t].counted = loc[t].n)
    /\ [][\A t \in Threads :
             /\ (pc'[t] # pc[t] /\ limited' # limited) =>
                   /\ pc[t] = "read_limit"
                   /\ statmu # t
                   /\ loc[t].counted = loc[t].n
                   /\ limited' = limited + loc[t].n
             /\ (pc'[t] # pc[t] /\ globalBytes' # globalBytes) =>
                   /\ pc[t] = "read_stats"
                   /\ globalBytes' = globalBytes + loc[t].n
             /\ (loc[t].op \in ReadOps /\ pc[t] # "done" /\ pc'[t] = "done") =>
                   /\ pc[t] = "read_ret"
                   /\ loc'[t].ret[1] = loc[t].n]_vars

C13_Witness ==
    \E t \in Threads :
        /\ loc[t].op = "AdapterRead"
        /\ pc[t] = "read_limit"
        /\ loc[t].n = 1 /\ loc[t].err = "EOF"
        /\ bytes = 1 /\ globalBytes = 1 /\ limited = 0

\* The streams a Read of s reads from: s and what it is laid over.
RECURSIVE Chain(_)
Chain(s) ==
    {s} \cup (CASE Kind(s) \in {"dec", "acct"} -> Chain(s[2])
                [] Kind(s) = "async" -> Chain(s[3])
                [] OTHER -> {})

\* C14: while the underlying Read of an accounted read, through Account.Read
\* or accountStream.Read, is in flight, no UpdateReader or SetStream of
\* another caller replaces an acc.in that this Read reads from, and no Close
\* closes a closer that it reads from.
C14_NoSwapUnderRead ==
    [][\A t, u \in Threads :
          (/\ t # u
           /\ loc[t].op \in ReadOps
           /\ pc[t] = "read_io"
           /\ pc'[u] # pc[u]) =>
              /\ (loc'[u].op \in {"UpdateReader", "SetStream"} /\ in' # in) =>
                    in \notin Chain(loc[t].in)
              /\ closeLog' # closeLog => close \notin Chain(loc[t].in)]_vars

\* C15: when an UpdateReader has returned, and no caller's own WithBuffer is
\* under way beside it, every AsyncReader the core made before has been told
\* to Abandon; only the one this UpdateReader made itself is still buffering.
C15_UpdateReaderAbandonsAll ==
    \A t \in Threads :
        (/\ Done(t, "UpdateReader")
         /\ \A u \in Threads : loc[u].op # "WithBuffer") =>
            \A k \in 1..nAsync :
                \/ \E s \in abandoned : s[2] = k
                \/ loc[t].rc # None /\ loc[t].rc[2] = k

\* C16: in every state in which the first Close has returned, averageLoop
\* has returned; and averageLoop returns only once a Close has closed
\* acc.exit.
C16_SamplerExitedAtReturn ==
    /\ FirstCloseReturned => apc = "exited"
    /\ apc = "exited" => closed

\* C17: acc.start is zero until an accounted read sets it to the time of
\* its first statement, before its underlying Read is called and whatever
\* that Read returns; no other step sets it, and once set it never changes.
C17_StartSetOnce ==
    /\ [](\A t \in Threads :
             (loc[t].op \in ReadOps
              /\ pc[t] \in ((ReadPcs \ {"read_start"}) \cup {"done"})) =>
                 start # 0)
    /\ [](start = 0 => sumN = 0 /\ bytes = 0)
    /\ [][start # 0 => start' = start]_vars
    /\ [][start' # start =>
             \E t \in Threads :
                 /\ pc[t] = "read_start" /\ pc'[t] = "read_started"
                 /\ start' = clock]_vars

\* A read that got nothing has set start in second 1; a later read took
\* statmu after the sampler's fold of second 2 and left start as it was.
C17_Witness ==
    \E t, u \in Threads :
        /\ t # u
        /\ pc[t] = "done" /\ loc[t].op \in ReadOps
        /\ loc[t].ret = <<0, "EOF">>
        /\ pc[u] = "read_started"
        /\ lpTime = 2
        /\ start = 1

\* C18: acc.bytes is what the sampler has folded into the average so far
\* plus the current acc.lpBytes, in every state; a read's two increments and
\* the sampler's fold-and-reset are critical sections of statmu, so a fold
\* between a Read's return and its counting loses and doubles nothing, and
\* lpBytes and the folded total change only in those two sections.
C18_WindowConservation ==
    /\ [](bytes = folded + lpBytes)
    /\ [](lpBytes >= 0 /\ folded >= 0)
    /\ [][(lpBytes' # lpBytes \/ folded' # folded \/ bytes' # bytes) =>
             /\ statmu = Free
             /\ statmu' # Free
             /\ \/ statmu' = Sampler /\ lpBytes' = 0
                                    /\ folded' = folded + lpBytes
                                    /\ bytes' = bytes
                \/ \E t \in Threads :
                      /\ statmu' = t /\ pc[t] = "read_account"
                      /\ lpBytes' = lpBytes + loc[t].n
                      /\ bytes' = bytes + loc[t].n
                      /\ folded' = folded]_vars

\* The sampler is folding a window that holds one read's byte while another
\* read, whose underlying Read has returned a byte, waits for statmu to
\* count it.
C18_Witness ==
    \E t \in Threads :
        /\ pc[t] = "read_account" /\ loc[t].n = 1
        /\ apc = "fold" /\ statmu = Sampler
        /\ folded = 1 /\ lpBytes = 0 /\ bytes = 1

\* A step of caller t inside the operation it has started.
Step(t) ==
    \/ ReadStart(t) \/ ReadStartUnlock(t) \/ ReadIO(t) \/ ReadAccount(t)
    \/ ReadAccountUnlock(t) \/ ReadStatsBytes(t) \/ ReadLimit(t)
    \/ ReadReturn(t)
    \/ CloseMark(t) \/ CloseCloser(t) \/ CloseReturn(t)
    \/ WithBufferIn(t) \/ WithBufferClose(t)
    \/ UpdateReaderIn(t) \/ UpdateReaderClose(t) \/ UpdateReaderOrigIn(t)
    \/ UpdateReaderWithBuffer(t) \/ UpdateReaderUnlock(t)
    \/ Unlock(t) \/ RoundTripUnlock(t) \/ RoundTripWrap(t)
    \/ StatUnlock(t)

\* Caller t has started an operation that has not returned.
Inside(t) == pc[t] \notin {"idle", "done"}

\* C19: no caller and not the sampler is ever stuck.  Whoever holds statmu
\* can take its next step at once; a caller inside an operation, acc.mu held
\* or not, can take its next step unless it waits for statmu in another's
\* hands, and so can the sampler with a tick to fold; whoever holds acc.mu is
\* inside an operation.  acc.mu is only taken when free and by a caller that
\* holds neither mutex, statmu only when free, and UpdateReader keeps acc.mu
\* from its Lock to its Unlock, through StopBuffering and WithBuffer.
C19_NoDeadlock ==
    /\ [](\A t \in Threads :
             /\ Inside(t) => statmu \notin {Free, t} \/ ENABLED Step(t)
             /\ statmu = t => Inside(t)
             /\ mu = t => Inside(t)
             /\ (loc[t].op = "UpdateReader" /\ Inside(t)) => mu = t)
    /\ [](/\ statmu = Sampler => ENABLED AverageUnlock
          /\ apc = "tick" => statmu \notin {Free, Sampler} \/ ENABLED AverageFold
          /\ mu \in Threads \cup {Free})
    /\ [][\A t \in Threads :
             /\ (mu' = t /\ mu # t) => mu = Free /\ statmu # t
             /\ (statmu' = t /\ statmu # t) => statmu = Free]_vars

\* A Read that holds acc.mu waits for statmu, which a progress call holds.
C19_Witness ==
    \E t, u \in Threads :
        /\ loc[t].op = "Read" /\ mu = t
        /\ pc[t] = "read_account"
        /\ ~ENABLED Step(t)
        /\ loc[u].op = "progress" /\ statmu = u

\* The sources given to the constructor and to UpdateReader.
Sources == {Src("a")} \cup NewSources

\* C20: a SetStream changes acc.in and nothing else of the core: acc.close,
\* acc.origIn, acc.bytes, acc.start, acc.closed and acc.withBuf stay.  So
\* acc.origIn, and what GetReader returns, is always a source given to the
\* constructor or to UpdateReader, and acc.close, and what Close closes, is
\* such a source or an AsyncReader over one: never a stream SetStream
\* installed; the two change only in a step of WithBuffer or UpdateReader,
\* to the stream that call installs.
C20_SetStreamFrame ==
    /\ [][\A t \in Threads :
             (pc'[t] # pc[t] /\ "SetStream" \in {loc[t].op, loc'[t].op}) =>
                /\ in' = IF pc[t] = "idle" THEN loc'[t].arg ELSE in
                /\ UNCHANGED <<origIn, close, size, withBuf, nAsync, abandoned,
                               lifeVars, statVars, readVars>>]_vars
    /\ [][(close' # close \/ origIn' # origIn) =>
             \E t \in Threads :
                 /\ pc'[t] # pc[t]
                 /\ loc[t].op \in {"WithBuffer", "UpdateReader"}
                 /\ close' \in {close, loc[t].arg, loc[t].rc}
                 /\ origIn' \in {origIn, loc[t].arg}]_vars
    /\ [](/\ origIn \in Sources
          /\ \/ close \in Sources
             \/ (IsAsync(close) /\ close[2] \in 1..nAsync
                                /\ close[3] \in Sources)
          /\ \A i \in 1..Len(closeLog) :
                \/ closeLog[i][1] \in Sources
                \/ (IsAsync(closeLog[i][1]) /\ closeLog[i][1][3] \in Sources)
          /\ \A t \in Threads :
                (loc[t].op = "GetReader" /\ pc[t] \in {"unlock", "done"})
                    => loc[t].ret[1] \in Sources)

\* After a SetStream, Close has closed the AsyncReader the constructor's
\* WithBuffer installed, not the stream SetStream installed.
C20_Witness ==
    \E t \in Threads :
        /\ Done(t, "Close")
        /\ in = Src("c")
        /\ closeLog = <<<<Async(1, Src("a")), "nil">>>>
        /\ origIn = Src("a")

====
